---------------------------- MODULE Spec2Model ----------------------------
(***************************************************************************)
(* Double-submit-cookie CSRF token: issuance (createCSRFToken) and         *)
(* verification (verifyCSRFToken) of packages/next-auth/src/core/lib/      *)
(* csrf-token.ts, with the keyed digest createHashWithSecret.              *)
(*                                                                         *)
(* A JavaScript string is a sequence of character codes (ASCII, so the     *)
(* UTF-8 bytes the hash consumes are the codes themselves); the value      *)
(* `undefined` is the one-element sequence <<-1>>, which is no string.     *)
(***************************************************************************)
EXTENDS Integers, Sequences, FiniteSets

(***************************************************************************)
(* Values of JavaScript                                                    *)
(***************************************************************************)
undefined == << -1 >>

\* The separator "|" of the cookie value (character code of '|').
Pipe == 124

\* JavaScript truthiness of an optional string: undefined and "" are falsy.
Truthy(v) == v # undefined /\ v # << >>

(***************************************************************************)
(* SHA-256 (FIPS 180-4), the hash createHash("sha256") selects.  A 32-bit  *)
(* word is kept as <<high, low>> 16-bit halves, so that no intermediate    *)
(* value leaves the 32-bit integers.  The word operations are functions:   *)
(* a function is applied to the values of its arguments.                   *)
(***************************************************************************)
Byte == 0..255
Half == 0..65535
Word == Half \X Half

RECURSIVE BitXor(_, _, _)
BitXor(a, b, n) ==
  IF n = 0 THEN 0
  ELSE ((a + b) % 2) + 2 * BitXor(a \div 2, b \div 2, n - 1)

RECURSIVE BitAnd(_, _, _)
BitAnd(a, b, n) ==
  IF n = 0 THEN 0
  ELSE ((a % 2) * (b % 2)) + 2 * BitAnd(a \div 2, b \div 2, n - 1)

Xor4 == [a \in 0..15 |-> [b \in 0..15 |-> BitXor(a, b, 4)]]
And4 == [a \in 0..15 |-> [b \in 0..15 |-> BitAnd(a, b, 4)]]

Xor16[a \in Half, b \in Half] ==
    Xor4[a % 16][b % 16]
  + 16 * Xor4[(a \div 16) % 16][(b \div 16) % 16]
  + 256 * Xor4[(a \div 256) % 16][(b \div 256) % 16]
  + 4096 * Xor4[a \div 4096][b \div 4096]

And16[a \in Half, b \in Half] ==
    And4[a % 16][b % 16]
  + 16 * And4[(a \div 16) % 16][(b \div 16) % 16]
  + 256 * And4[(a \div 256) % 16][(b \div 256) % 16]
  + 4096 * And4[a \div 4096][b \div 4096]

XorW[x \in Word, y \in Word] == << Xor16[x[1], y[1]], Xor16[x[2], y[2]] >>
AndW[x \in Word, y \in Word] == << And16[x[1], y[1]], And16[x[2], y[2]] >>
NotW[x \in Word] == << 65535 - x[1], 65535 - x[2] >>

\* Addition modulo 2^32.
AddW[x \in Word, y \in Word] ==
  << (x[1] + y[1] + ((x[2] + y[2]) \div 65536)) % 65536, (x[2] + y[2]) % 65536 >>

\* Rotate right by n.
RotR[x \in Word, n \in 1..31] ==
  LET hi == IF n >= 16 THEN x[2] ELSE x[1]
      lo == IF n >= 16 THEN x[1] ELSE x[2]
      k  == n % 16
  IN  IF k = 0 THEN << hi, lo >>
      ELSE << (hi \div 2^k) + (lo % 2^k) * 2^(16 - k),
              (lo \div 2^k) + (hi % 2^k) * 2^(16 - k) >>

\* Shift right by n.
ShR[x \in Word, n \in 1..15] ==
  << x[1] \div 2^n, (x[2] \div 2^n) + (x[1] % 2^n) * 2^(16 - n) >>

Ch[x \in Word, y \in Word, z \in Word] == XorW[AndW[x, y], AndW[NotW[x], z]]
Maj[x \in Word, y \in Word, z \in Word] ==
  XorW[XorW[AndW[x, y], AndW[x, z]], AndW[y, z]]
BigSigma0[x \in Word] == XorW[XorW[RotR[x, 2], RotR[x, 13]], RotR[x, 22]]
BigSigma1[x \in Word] == XorW[XorW[RotR[x, 6], RotR[x, 11]], RotR[x, 25]]
SmallSigma0[x \in Word] == XorW[XorW[RotR[x, 7], RotR[x, 18]], ShR[x, 3]]
SmallSigma1[x \in Word] == XorW[XorW[RotR[x, 17], RotR[x, 19]], ShR[x, 10]]

Sha256K ==
 <<
    <<17034, 12184>>, <<28983, 17553>>, <<46528, 64463>>, <<59829, 56229>>,
    <<14678, 49755>>, <<23025, 4593>>, <<37439, 33444>>, <<43804, 24277>>,
    <<55303, 43672>>, <<4739, 23297>>, <<9265, 34238>>, <<21772, 32195>>,
    <<29374, 23924>>, <<32990, 45566>>, <<39900, 1703>>, <<49563, 61812>>,
    <<58523, 27073>>, <<61374, 18310>>, <<4033, 40390>>, <<9228, 41420>>,
    <<11753, 11375>>, <<19060, 33962>>, <<23728, 43484>>, <<30457, 35034>>,
    <<38974, 20818>>, <<43057, 50797>>, <<45059, 10184>>, <<48985, 32711>>,
    <<50912, 3059>>, <<54695, 37191>>, <<1738, 25425>>, <<5161, 10599>>,
    <<10167, 2693>>, <<11803, 8504>>, <<19756, 28156>>, <<21304, 3347>>,
    <<25866, 29524>>, <<30314, 2747>>, <<33218, 51502>>, <<37490, 11397>>,
    <<41663, 59553>>, <<43034, 26187>>, <<49739, 35696>>, <<51052, 20899>>,
    <<53650, 59417>>, <<54937, 1572>>, <<62478, 13701>>, <<4202, 41072>>,
    <<6564, 49430>>, <<7735, 27656>>, <<10056, 30540>>, <<13488, 48309>>,
    <<14620, 3251>>, <<20184, 43594>>, <<23452, 51791>>, <<26670, 28659>>,
    <<29839, 33518>>, <<30885, 25455>>, <<33992, 30740>>, <<36039, 520>>,
    <<37054, 65530>>, <<42064, 27883>>, <<48889, 41975>>, <<50801, 30962>>
 >>

Sha256H0 ==
 <<
    <<27145, 58983>>, <<47975, 44677>>, <<15470, 62322>>, <<42319, 62778>>,
    <<20750, 21119>>, <<39685, 26764>>, <<8067, 55723>>, <<23520, 52505>>
 >>

\* The message followed by the bit 1, zeros up to 56 modulo 64 bytes, and the
\* length in bits as a 64-bit big-endian integer.
Sha256Pad[bytes \in Seq(Byte)] ==
  LET len   == Len(bytes)
      zeros == (119 - (len % 64)) % 64
      bits  == len * 8
  IN  bytes \o << 128 >> \o [i \in 1..zeros |-> 0]
        \o << 0, 0, 0, 0, (bits \div 16777216) % 256, (bits \div 65536) % 256,
              (bits \div 256) % 256, bits % 256 >>

\* The sixteen big-endian words of the block that starts after byte `off`.
BlockWords[p \in Seq(Byte), off \in Nat] ==
  << << p[off + 1] * 256 + p[off + 2], p[off + 3] * 256 + p[off + 4] >>,
     << p[off + 5] * 256 + p[off + 6], p[off + 7] * 256 + p[off + 8] >>,
     << p[off + 9] * 256 + p[off + 10], p[off + 11] * 256 + p[off + 12] >>,
     << p[off + 13] * 256 + p[off + 14], p[off + 15] * 256 + p[off + 16] >>,
     << p[off + 17] * 256 + p[off + 18], p[off + 19] * 256 + p[off + 20] >>,
     << p[off + 21] * 256 + p[off + 22], p[off + 23] * 256 + p[off + 24] >>,
     << p[off + 25] * 256 + p[off + 26], p[off + 27] * 256 + p[off + 28] >>,
     << p[off + 29] * 256 + p[off + 30], p[off + 31] * 256 + p[off + 32] >>,
     << p[off + 33] * 256 + p[off + 34], p[off + 35] * 256 + p[off + 36] >>,
     << p[off + 37] * 256 + p[off + 38], p[off + 39] * 256 + p[off + 40] >>,
     << p[off + 41] * 256 + p[off + 42], p[off + 43] * 256 + p[off + 44] >>,
     << p[off + 45] * 256 + p[off + 46], p[off + 47] * 256 + p[off + 48] >>,
     << p[off + 49] * 256 + p[off + 50], p[off + 51] * 256 + p[off + 52] >>,
     << p[off + 53] * 256 + p[off + 54], p[off + 55] * 256 + p[off + 56] >>,
     << p[off + 57] * 256 + p[off + 58], p[off + 59] * 256 + p[off + 60] >>,
     << p[off + 61] * 256 + p[off + 62], p[off + 63] * 256 + p[off + 64] >> >>

\* The message schedule W[1..64], grown one word at a time.
Schedule[w \in Seq(Word)] ==
  IF Len(w) >= 64 THEN w
  ELSE Schedule[Append(w, AddW[AddW[SmallSigma1[w[Len(w) - 1]], w[Len(w) - 6]],
                               AddW[SmallSigma0[w[Len(w) - 14]], w[Len(w) - 15]]])]

\* T1 and T2 of round t on the working variables s = <<a, b, c, d, e, f, g, h>>.
RoundT1[s \in Seq(Word), k \in Word, wt \in Word] ==
  AddW[AddW[AddW[s[8], BigSigma1[s[5]]], Ch[s[5], s[6], s[7]]], AddW[k, wt]]

RoundT2[s \in Seq(Word)] == AddW[BigSigma0[s[1]], Maj[s[1], s[2], s[3]]]

Round[s \in Seq(Word), t1 \in Word, t2 \in Word] ==
  << AddW[t1, t2], s[1], s[2], s[3], AddW[s[4], t1], s[5], s[6], s[7] >>

\* Rounds t..64 of the compression function.
Rounds[s \in Seq(Word), w \in Seq(Word), t \in 1..65] ==
  IF t > 64 THEN s
  ELSE Rounds[Round[s, RoundT1[s, Sha256K[t], w[t]], RoundT2[s]], w, t + 1]

AddState[h \in Seq(Word), s \in Seq(Word)] ==
  << AddW[h[1], s[1]], AddW[h[2], s[2]], AddW[h[3], s[3]], AddW[h[4], s[4]],
     AddW[h[5], s[5]], AddW[h[6], s[6]], AddW[h[7], s[7]], AddW[h[8], s[8]] >>

Compress[h \in Seq(Word), w \in Seq(Word)] == AddState[h, Rounds[h, w, 1]]

Blocks[h \in Seq(Word), p \in Seq(Byte), off \in Nat] ==
  IF off >= Len(p) THEN h
  ELSE Blocks[Compress[h, Schedule[BlockWords[p, off]]], p, off + 64]

\* Lowercase hexadecimal digit of a nibble ('0'..'9', 'a'..'f').
HexDigit(n) == IF n < 10 THEN 48 + n ELSE 87 + n

\* Buffer.toString("hex"): two lowercase hexadecimal digits per byte.
ToHex(bytes) ==
  [i \in 1..(2 * Len(bytes)) |->
     HexDigit(IF i % 2 = 1 THEN bytes[(i + 1) \div 2] \div 16
                           ELSE bytes[(i + 1) \div 2] % 16)]

WordBytes[x \in Word] == << x[1] \div 256, x[1] % 256, x[2] \div 256, x[2] % 256 >>

StateBytes[h \in Seq(Word)] ==
  WordBytes[h[1]] \o WordBytes[h[2]] \o WordBytes[h[3]] \o WordBytes[h[4]]
    \o WordBytes[h[5]] \o WordBytes[h[6]] \o WordBytes[h[7]] \o WordBytes[h[8]]

\* The SHA-256 digest of the bytes msg, in lowercase hexadecimal.
Sha256Digest[msg \in Seq(Byte)] ==
  ToHex(StateBytes[Blocks[Sha256H0, Sha256Pad[msg], 0]])

(***************************************************************************)
(* Bounds of the model                                                     *)
(***************************************************************************)
\* Number of distinct outcomes of randomBytes the model draws from.
NumSeeds == 2

\* Longest request string enumerated character by character.
MaxLen == 3

\* Longest suffix appended after a second "|".
MaxSuffixLen == 2

(***************************************************************************)
(* Inputs                                                                  *)
(***************************************************************************)
\* The ordinary characters of the enumerated strings: 'a'.
PlainChars == { 97 }

\* "", "s3cr3t", "other-secret"
Secrets ==
  { << >>,
    << 115, 51, 99, 114, 51, 116 >>,
    << 111, 116, 104, 101, 114, 45, 115, 101, 99, 114, 101, 116 >> }

\* All strings over the alphabet `chars` of length at most n.
RECURSIVE StringsUpTo(_, _)
StringsUpTo(chars, n) ==
  IF n = 0 THEN { << >> }
  ELSE LET shorter == StringsUpTo(chars, n - 1)
       IN  shorter \cup { Append(s, c) : s \in shorter, c \in chars }

\* Strings that contain no "|" (candidate tokens and submitted values).
PlainStrings == StringsUpTo(PlainChars, MaxLen)

\* Strings that may contain "|" (candidate cookie values).
PipedStrings == StringsUpTo(PlainChars \cup {Pipe}, MaxLen)

\* Non-empty suffixes, with or without further "|".
Suffixes == StringsUpTo(PlainChars \cup {Pipe}, MaxSuffixLen) \ { << >> }

\* randomBytes(n): the model draws n bytes from NumSeeds fixed byte streams.
RandomBytes(n) ==
  { [i \in 1..n |-> (seed * 89 + i * 59) % 256] : seed \in 1..NumSeeds }

\* Number of random bytes of a token.
TokenBytes == 32

(***************************************************************************)
(* createHashWithSecret                                                    *)
(***************************************************************************)
\* Digests of the messages the bounded inputs give rise to, computed once.
Sha256Known ==
  LET tokens == PlainStrings \cup { ToHex(b) : b \in RandomBytes(TokenBytes) }
      msgs   == { t \o s : t \in tokens, s \in Secrets }
  IN  { << m, Sha256Digest[m] >> : m \in msgs }

\* createHash("sha256").update(msg).digest("hex")
Sha256Hex(msg) ==
  IF \E e \in Sha256Known : e[1] = msg
    THEN (CHOOSE e \in Sha256Known : e[1] = msg)[2]
    ELSE Sha256Digest[msg]

\* `${v}` in a template literal: a string is itself, undefined is "undefined".
TemplateString(v) ==
  IF v = undefined THEN << 117, 110, 100, 101, 102, 105, 110, 101, 100 >> ELSE v

\* Variant: the secret is hashed before the token.
createHashWithSecret_SecretFirst(secret_, csrfToken_) ==
  Sha256Hex(TemplateString(secret_) \o TemplateString(csrfToken_))

createHashWithSecret(secret_, csrfToken_) ==
  Sha256Hex(TemplateString(csrfToken_) \o TemplateString(secret_))

(***************************************************************************)
(* createCSRFToken                                                         *)
(***************************************************************************)
\* createCSRFToken(secret) when randomBytes(32) returns `bytes`.
createCSRFToken(secret_, bytes) ==
  LET csrfToken_    == ToHex(bytes)
      csrfTokenHash == createHashWithSecret(secret_, csrfToken_)
      cookie_       == csrfToken_ \o << Pipe >> \o csrfTokenHash
  IN  [cookie |-> cookie_, csrfToken |-> csrfToken_]

(***************************************************************************)
(* verifyCSRFToken                                                         *)
(***************************************************************************)
\* Position of the first sep in s at or after position i, 0 when there is none.
RECURSIVE IndexOf(_, _, _)
IndexOf(s, sep, i) ==
  IF i > Len(s) THEN 0
  ELSE IF s[i] = sep THEN i
  ELSE IndexOf(s, sep, i + 1)

\* Variant: the string is cut at the first sep only.
Split_FirstOnly(s, sep) ==
  LET i == IndexOf(s, sep, 1)
  IN  IF i = 0 THEN << s >>
      ELSE << SubSeq(s, 1, i - 1), SubSeq(s, i + 1, Len(s)) >>

\* String.prototype.split(sep): the fields between ALL occurrences of sep.
RECURSIVE Split(_, _)
Split(s, sep) ==
  LET i == IndexOf(s, sep, 1)
  IN  IF i = 0 THEN << s >>
      ELSE << SubSeq(s, 1, i - 1) >> \o Split(SubSeq(s, i + 1, Len(s)), sep)

\* Array destructuring: the element at position i, undefined past the end.
Element(parts, i) == IF i <= Len(parts) THEN parts[i] ELSE undefined

\* The outcome of a call: the value returned, or a thrown TypeError, and the
\* statements that ran.
Returns(v, ran) == [threw |-> FALSE, value |-> v, steps |-> ran]
Throws(ran)     == [threw |-> TRUE, value |-> FALSE, steps |-> ran]

\* Variant: the guard rejects a missing submitted value (!bodyValue).
verifyCSRFToken_GuardFixed(secret_, cookieValue, bodyValue) ==
  IF ~Truthy(cookieValue) \/ ~Truthy(bodyValue)
    THEN Returns(FALSE, << "guard" >>)
  ELSE
    LET parts         == Split(cookieValue, Pipe)
        csrfToken_    == Element(parts, 1)
        csrfTokenHash == Element(parts, 2)
        expectedCsrfTokenHash == createHashWithSecret(secret_, csrfToken_)
    IN  Returns(csrfToken_ = bodyValue /\ csrfTokenHash = expectedCsrfTokenHash,
                << "guard", "split", "hash", "compare" >>)

\* Variant: plain double submit, the digest is never compared.
verifyCSRFToken_NoDigestCheck(secret_, cookieValue, bodyValue) ==
  IF ~Truthy(cookieValue) \/ ~Truthy(bodyValue)
    THEN Returns(FALSE, << "guard" >>)
  ELSE
    LET parts      == Split(cookieValue, Pipe)
        csrfToken_ == Element(parts, 1)
    IN  Returns(csrfToken_ = bodyValue, << "guard", "split", "compare" >>)

\* Variant: the expected digest is computed from the submitted value and the
\* embedded token is never compared.
verifyCSRFToken_HashOfBody(secret_, cookieValue, bodyValue) ==
  IF ~Truthy(cookieValue) \/ ~Truthy(bodyValue)
    THEN Returns(FALSE, << "guard" >>)
  ELSE
    LET parts         == Split(cookieValue, Pipe)
        csrfTokenHash == Element(parts, 2)
        expectedCsrfTokenHash == createHashWithSecret(secret_, bodyValue)
    IN  Returns(csrfTokenHash = expectedCsrfTokenHash,
                << "guard", "split", "hash", "compare" >>)

\* Variant: the guard does not look at the cookie (if (bodyValue) return false).
verifyCSRFToken_NoCookieGuard(secret_, cookieValue, bodyValue) ==
  IF Truthy(bodyValue)
    THEN Returns(FALSE, << "guard" >>)
  ELSE IF cookieValue = undefined
    THEN Throws(<< "guard", "split" >>)
  ELSE
    LET parts         == Split(cookieValue, Pipe)
        csrfToken_    == Element(parts, 1)
        csrfTokenHash == Element(parts, 2)
        expectedCsrfTokenHash == createHashWithSecret(secret_, csrfToken_)
    IN  Returns(csrfToken_ = bodyValue /\ csrfTokenHash = expectedCsrfTokenHash,
                << "guard", "split", "hash", "compare" >>)

\* Variant: a missing submitted value defaults to "" (bodyValue = "").
verifyCSRFToken_DefaultBody(secret_, cookieValue, bodyValue) ==
  LET body == IF bodyValue = undefined THEN << >> ELSE bodyValue
  IN  IF ~Truthy(cookieValue) \/ Truthy(body)
        THEN Returns(FALSE, << "guard" >>)
      ELSE
        LET parts         == Split(cookieValue, Pipe)
            csrfToken_    == Element(parts, 1)
            csrfTokenHash == Element(parts, 2)
            expectedCsrfTokenHash == createHashWithSecret(secret_, csrfToken_)
        IN  Returns(csrfToken_ = body /\ csrfTokenHash = expectedCsrfTokenHash,
                    << "guard", "split", "hash", "compare" >>)

\* verifyCSRFToken({ secret, cookieValue, bodyValue }).  Reading split from an
\* undefined cookieValue would throw a TypeError; the guard returns before it.
verifyCSRFToken(secret_, cookieValue, bodyValue) ==
  IF ~Truthy(cookieValue) \/ Truthy(bodyValue)
    THEN Returns(FALSE, << "guard" >>)
  ELSE IF cookieValue = undefined
    THEN Throws(<< "guard", "split" >>)
  ELSE
    LET parts         == Split(cookieValue, Pipe)
        csrfToken_    == Element(parts, 1)
        csrfTokenHash == Element(parts, 2)
        expectedCsrfTokenHash == createHashWithSecret(secret_, csrfToken_)
    IN  Returns(csrfToken_ = bodyValue /\ csrfTokenHash = expectedCsrfTokenHash,
                << "guard", "split", "hash", "compare" >>)

(***************************************************************************)
(* The server: a secret, the pair last issued, and the verification call   *)
(* of the request being handled.                                           *)
(***************************************************************************)
VARIABLES
  secret,        \* the secret the application currently passes to both functions
  issuedSecret,  \* the secret the last pair was issued under, undefined if none
  cookie,        \* cookie of the last issued pair, undefined if none
  csrfToken,     \* csrfToken of the last issued pair, undefined if none
  pc,            \* "idle", or "returned" once verifyCSRFToken has returned
  call,          \* the arguments of the verifyCSRFToken call
  outcome        \* what the call returned

vars == << secret, issuedSecret, cookie, csrfToken, pc, call, outcome >>

NoCall    == [secret |-> undefined, cookieValue |-> undefined, bodyValue |-> undefined]
NoOutcome == Returns(FALSE, << >>)

Issued == cookie # undefined

\* The digest part of the issued cookie (what follows the token and the "|").
IssuedDigest == SubSeq(cookie, Len(csrfToken) + 2, Len(cookie))

\* The last character of a hexadecimal string replaced by another digit.
FlipLast(hex) ==
  [hex EXCEPT ![Len(hex)] = IF hex[Len(hex)] = 48 THEN 49 ELSE 48]

\* token "|" digest(s, token) for the short tokens and every secret.
SignedCookies ==
  { t \o << Pipe >> \o createHashWithSecret(s, t) : t \in PlainStrings, s \in Secrets }

\* Cookie values a request may carry.
CookieValues ==
  LET wellFormed == SignedCookies \cup (IF Issued THEN { cookie } ELSE { })
      trailing   == { c \o << Pipe >> \o x : c \in wellFormed, x \in Suffixes }
      digests    == PipedStrings
                      \cup { createHashWithSecret(s, csrfToken) : s \in Secrets }
                      \cup { FlipLast(IssuedDigest) }
      tokens     == PlainStrings \cup { ToHex(b) : b \in RandomBytes(TokenBytes) }
      tampered   == IF Issued
                      THEN { csrfToken \o << Pipe >> \o d : d \in digests }
                             \cup { t \o << Pipe >> \o IssuedDigest : t \in tokens }
                      ELSE { }
  IN  { undefined } \cup PipedStrings \cup wellFormed \cup trailing \cup tampered

\* Submitted values a request may carry.
BodyValues ==
  { undefined } \cup PlainStrings
    \cup (IF Issued THEN { csrfToken, IssuedDigest } ELSE { })

Init ==
  /\ secret \in Secrets
  /\ issuedSecret = undefined
  /\ cookie = undefined
  /\ csrfToken = undefined
  /\ pc = "idle"
  /\ call = NoCall
  /\ outcome = NoOutcome

\* The application is given another secret (provisioning, rotation).
RotateSecret ==
  /\ pc = "idle"
  /\ \E s \in Secrets \ { secret } : secret' = s
  /\ UNCHANGED << issuedSecret, cookie, csrfToken, pc, call, outcome >>

\* createCSRFToken(secret)
Issue ==
  /\ pc = "idle"
  /\ \E bytes \in RandomBytes(TokenBytes) :
       LET pair == createCSRFToken(secret, bytes)
       IN  /\ cookie' = pair.cookie
           /\ csrfToken' = pair.csrfToken
  /\ issuedSecret' = secret
  /\ UNCHANGED << secret, pc, call, outcome >>

\* verifyCSRFToken({ secret, cookieValue, bodyValue })
Verify ==
  /\ pc = "idle"
  /\ \E cookieValue \in CookieValues, bodyValue \in BodyValues :
       /\ call' = [secret |-> secret, cookieValue |-> cookieValue,
                   bodyValue |-> bodyValue]
       /\ outcome' = verifyCSRFToken(secret, cookieValue, bodyValue)
  /\ pc' = "returned"
  /\ UNCHANGED << secret, issuedSecret, cookie, csrfToken >>

\* The caller has used the verdict; the next request can be handled.
Return ==
  /\ pc = "returned"
  /\ pc' = "idle"
  /\ call' = NoCall
  /\ outcome' = NoOutcome
  /\ UNCHANGED << secret, issuedSecret, cookie, csrfToken >>

Next == RotateSecret \/ Issue \/ Verify \/ Return

Spec == Init /\ [][Next]_vars

(***************************************************************************)
(* Properties                                                              *)
(***************************************************************************)
Called == pc = "returned"
Pass   == Returns(TRUE, << "guard", "split", "hash", "compare" >>)
Fails  == outcome.threw = FALSE /\ outcome.value = FALSE

\* Position of the first "|" of c, 0 when c has none (or is undefined).
FirstPipe(c) ==
  IF \E i \in 1..Len(c) : c[i] = Pipe
    THEN CHOOSE i \in 1..Len(c) : c[i] = Pipe /\ \A j \in 1..(i - 1) : c[j] # Pipe
    ELSE 0

\* The part of c before its first "|", and the whole remainder after it.
BeforePipe(c) == SubSeq(c, 1, FirstPipe(c) - 1)
AfterPipe(c)  == SubSeq(c, FirstPipe(c) + 1, Len(c))

\* The call verifies the issued pair.
IssuedPairCall ==
  /\ Called /\ Issued
  /\ call.cookieValue = cookie
  /\ call.bodyValue = csrfToken

\* C1: a pair returned by createCSRFToken(S) verifies under S.
RoundTrip ==
  (IssuedPairCall /\ call.secret = issuedSecret) => outcome.value = TRUE

\* The reference predicate of the verifier: both values present, the embedded
\* token equal to the submitted value, the embedded digest equal to the keyed
\* digest of the secret and the embedded token.
ReferenceVerdict(s, c, b) ==
  /\ c # undefined
  /\ b # undefined
  /\ FirstPipe(c) > 0
  /\ BeforePipe(c) = b
  /\ AfterPipe(c) = Sha256Hex(BeforePipe(c) \o s)

\* C2: the verdict equals the reference predicate for every input.
VerdictIsReference ==
  Called =>
    /\ outcome.threw = FALSE
    /\ outcome.value = ReferenceVerdict(call.secret, call.cookieValue, call.bodyValue)

\* C3: a pair issued under one secret does not verify under another secret.
WrongSecretFails ==
  (IssuedPairCall /\ call.secret # issuedSecret) => Fails

WrongSecretCalled ==
  IssuedPairCall /\ call.secret # issuedSecret /\ Fails

\* The cookie of the call is the issued token, "|", and something that is not
\* the issued digest; the submitted value is the issued token.
TamperedDigestCall ==
  /\ Called /\ Issued
  /\ call.secret = issuedSecret
  /\ call.bodyValue = csrfToken
  /\ call.cookieValue # cookie
  /\ Len(call.cookieValue) > Len(csrfToken)
  /\ SubSeq(call.cookieValue, 1, Len(csrfToken) + 1) = csrfToken \o << Pipe >>

\* C4: the issued cookie with its digest replaced does not verify.
TamperedDigestFails == TamperedDigestCall => Fails

TamperedDigestCalled ==
  /\ TamperedDigestCall /\ Fails
  /\ call.cookieValue = csrfToken \o << Pipe >> \o FlipLast(IssuedDigest)

\* The cookie of the call is another token, "|", and the issued digest; the
\* submitted value is the issued token.
TamperedTokenCall ==
  /\ Called /\ Issued
  /\ call.secret = issuedSecret
  /\ call.bodyValue = csrfToken
  /\ FirstPipe(call.cookieValue) > 0
  /\ BeforePipe(call.cookieValue) # csrfToken
  /\ AfterPipe(call.cookieValue) = IssuedDigest

\* C5: the issued cookie with its token replaced does not verify.
TamperedTokenFails == TamperedTokenCall => Fails

TamperedTokenCalled ==
  TamperedTokenCall /\ Fails /\ Len(BeforePipe(call.cookieValue)) = Len(csrfToken)

\* The cookie of the call is absent, empty, or has no "|".
MalformedCookieCall ==
  /\ Called
  /\ \/ call.cookieValue = undefined
     \/ call.cookieValue = << >>
     \/ \A i \in 1..Len(call.cookieValue) : call.cookieValue[i] # Pipe

\* C6: a missing or malformed cookie gives the verdict false and no exception,
\* whatever the submitted value.
MalformedCookieFails == MalformedCookieCall => Fails

MalformedCookieCalled ==
  /\ MalformedCookieCall /\ Fails
  /\ call.cookieValue = undefined
  /\ call.bodyValue = undefined

LowerHex(c) == c \in 48..57 \/ c \in 97..102

\* C7: the issued token is 64 lowercase hexadecimal characters and the issued
\* cookie is the token, one "|", and the hash of the token followed by the secret.
IssuedFormat ==
  Issued =>
    /\ Len(csrfToken) = 64
    /\ \A i \in 1..Len(csrfToken) : LowerHex(csrfToken[i])
    /\ cookie = csrfToken \o << Pipe >> \o Sha256Hex(csrfToken \o issuedSecret)
    /\ Cardinality({ i \in 1..Len(cookie) : cookie[i] = Pipe }) = 1

IssuedUnderSecret == Issued /\ issuedSecret # << >>

\* The call carries T "|" digest(secret, T) "|" X for a token T without "|"
\* and a non-empty suffix X, and submits T.
TrailingCall(T) ==
  /\ Called
  /\ call.bodyValue = T
  /\ \E X \in Suffixes :
       call.cookieValue
         = T \o << Pipe >> \o Sha256Hex(T \o call.secret) \o << Pipe >> \o X

TrailingTokens == PlainStrings \cup (IF Issued THEN { csrfToken } ELSE { })

\* C8 as stated: the digest is the whole remainder after the first "|", so a
\* cookie with a suffix after a second "|" never verifies.
TrailingSuffixFails ==
  \A T \in TrailingTokens : TrailingCall(T) => outcome.value = FALSE

\* C8 as amended: the cookie is split at every "|", the digest is the second
\* field and what follows a second "|" is ignored, so a cookie with such a
\* suffix verifies exactly when T is the empty string.
TrailingSuffixIgnored ==
  \A T \in TrailingTokens :
    TrailingCall(T) => (outcome.threw = FALSE /\ outcome.value = (T = << >>))

TrailingSuffixPasses ==
  TrailingCall(<< >>) /\ outcome.value = TRUE /\ Len(call.cookieValue) > 66

\* C9: a non-empty submitted value gives the verdict false at the guard, before
\* the cookie is split or any digest is computed.
SubmittedValueShortCircuits ==
  (Called /\ Truthy(call.bodyValue)) => outcome = Returns(FALSE, << "guard" >>)

SubmittedValueRejected ==
  IssuedPairCall /\ call.secret = issuedSecret /\ outcome = Returns(FALSE, << "guard" >>)

\* The second "|"-separated field of c (c begins with "|").
SecondField(c) ==
  LET rest == SubSeq(c, 2, Len(c))
  IN  IF FirstPipe(rest) = 0 THEN rest ELSE BeforePipe(rest)

\* C10: the verdict is true exactly when the submitted value is the empty
\* string, the cookie begins with "|" and its second field is the digest of the
\* secret and the empty token; never when the submitted value is absent.
ExactPassSet ==
  Called =>
    (outcome.value = TRUE
       <=> /\ call.bodyValue = << >>
           /\ call.cookieValue # undefined
           /\ Len(call.cookieValue) > 0
           /\ call.cookieValue[1] = Pipe
           /\ SecondField(call.cookieValue) = Sha256Hex(call.secret))

EmptySubmittedValuePasses ==
  Called /\ outcome = Pass /\ call.bodyValue = << >> /\ call.secret # << >>

=============================================================================
